---- MODULE Spec2Model ----
(***************************************************************************)
(* Model of src/code_standardizer.py: the Streamlit script main(), the     *)
(* tool adapters, the model client and the two string functions.           *)
(*                                                                         *)
(* Text is a sequence of one-character strings, so that str.replace,       *)
(* str.splitlines, str.strip and the substring test act on characters.     *)
(* A prompt is the sequence of the segments its f-string concatenates.     *)
(***************************************************************************)
EXTENDS Integers, Sequences, FiniteSets, TLC

VARIABLES
    arg,      \* pure-function runs: the string the function is applied to
    called,   \* pure-function runs: the function applied, "none" before
    ret,      \* pure-function runs: the value returned
    pc, choice, upload,
    original_code, summary, lint_report, standardized_code,
    new_lint_report, new_pylint_score, translated_code, download,
    prompt, trace, llm_calls, st_errors, raised,
    fs, tools

pureVars == <<arg, called, ret>>
flowVars == <<pc, choice, upload, original_code, summary, lint_report,
              standardized_code, new_lint_report, new_pylint_score,
              translated_code, download, prompt, trace, llm_calls,
              st_errors, raised, fs, tools>>
vars == <<arg, called, ret, pc, choice, upload, original_code, summary,
          lint_report, standardized_code, new_lint_report, new_pylint_score,
          translated_code, download, prompt, trace, llm_calls, st_errors,
          raised, fs, tools>>

-----------------------------------------------------------------------------
(* Bounds *)

\* longest report, in pieces of ReportPieces
MaxReportPieces == 4
\* longest model response, in pieces of ResponsePieces
MaxResponsePieces == 4

-----------------------------------------------------------------------------
(* Text *)

\* the backtick character U+0060, which a TLA+ string cannot hold
Tick == "BACKTICK"

Empty == << >>
Space == <<" ">>
Fence == <<Tick, Tick, Tick>>
FencePython == <<Tick, Tick, Tick, "p", "y", "t", "h", "o", "n">>
FenceR == <<Tick, Tick, Tick, "r">>
Marker == <<"Y","o","u","r"," ","c","o","d","e"," ","h","a","s"," ",
            "b","e","e","n"," ","r","a","t","e","d"," ","a","t">>
Fallback == <<"P","y","l","i","n","t"," ","s","c","o","r","e"," ",
              "n","o","t"," ","f","o","u","n","d",".">>

\* characters str.strip() removes and str.splitlines() splits at, among
\* those the modelled texts are made of
Whitespace == {" ", "\t", "\n", "\r"}
LineBreaks == {"\n", "\r"}

\* old occurs in s at position i
OccursAt(s, old, i) ==
    /\ i >= 1
    /\ i + Len(old) - 1 <= Len(s)
    /\ SubSeq(s, i, i + Len(old) - 1) = old

\* Python: old in s
Contains(s, old) == \E i \in 1..(Len(s) + 1) : OccursAt(s, old, i)

CountOcc(s, old) == Cardinality({i \in 1..Len(s) : OccursAt(s, old, i)})

\* where the leftmost occurrence of old in s starts
FirstOcc(s, old) ==
    CHOOSE i \in 1..Len(s) :
        OccursAt(s, old, i) /\ \A j \in 1..(i - 1) : ~OccursAt(s, old, j)

RECURSIVE Replace(_, _, _)
\* Python: s.replace(old, new), old non-empty: the non-overlapping
\* occurrences, taken from the left
Replace(s, old, new) ==
    IF ~Contains(s, old) THEN s
    ELSE LET i == FirstOcc(s, old) IN
         SubSeq(s, 1, i - 1) \o new
             \o Replace(SubSeq(s, i + Len(old), Len(s)), old, new)

RECURSIVE LStrip(_)
LStrip(s) == IF s # Empty /\ Head(s) \in Whitespace THEN LStrip(Tail(s)) ELSE s

RECURSIVE RStrip(_)
RStrip(s) ==
    IF s # Empty /\ s[Len(s)] \in Whitespace
    THEN RStrip(SubSeq(s, 1, Len(s) - 1)) ELSE s

\* Python: s.strip()
Strip(s) == RStrip(LStrip(s))

RECURSIVE SplitFrom(_, _)
\* the lines of s from position i on; a line ends at a line break (the pair
\* \r\n being one break) or at the end of the text
SplitFrom(s, i) ==
    IF i > Len(s) THEN << >>
    ELSE LET ends == {k \in i..Len(s) : s[k] \in LineBreaks} IN
         IF ends = {} THEN <<SubSeq(s, i, Len(s))>>
         ELSE LET k == CHOOSE e \in ends : \A f \in ends : e <= f
                  next == IF s[k] = "\r" /\ k < Len(s) /\ s[k + 1] = "\n"
                          THEN k + 2 ELSE k + 1
              IN <<SubSeq(s, i, k - 1)>> \o SplitFrom(s, next)

\* Python: s.splitlines()
splitlines(s) == SplitFrom(s, 1)

RECURSIVE Concat(_)
Concat(ps) == IF ps = << >> THEN Empty ELSE Head(ps) \o Concat(Tail(ps))

SeqsUpTo(S, n) == UNION {[1..k -> S] : k \in 0..n}

-----------------------------------------------------------------------------
(* extract_pylint_score *)

\* the first rated line, returned as it stands in the report
extract_pylint_score_verbatim(report) ==
    LET lines == splitlines(report)
        hits == {i \in 1..Len(lines) : Contains(lines[i], Marker)}
    IN IF hits = {} THEN Fallback
       ELSE lines[CHOOSE i \in hits : \A j \in hits : i <= j]

RECURSIVE FirstRated(_)
FirstRated(lines) ==
    IF lines = << >> THEN Fallback
    ELSE IF Contains(Head(lines), Marker) THEN Strip(Head(lines))
    ELSE FirstRated(Tail(lines))

extract_pylint_score(report) == FirstRated(splitlines(report))

ReportPieces == {Marker, <<" ">>, <<"\n">>, <<"x">>, <<"\r">>}
ReportInputs == {Concat(ps) : ps \in SeqsUpTo(ReportPieces, MaxReportPieces)}

-----------------------------------------------------------------------------
(* The working directory, the host environment, the model endpoint *)

Sessions == {"u1", "u2"}
Names == {"a.py", "b.r"}
Languages == {"Python", "R"}
Standardizers == {"Pylint", "Black", "lintr"}
Tools == {"pylint", "black", "Rscript", "lintr"}

\* what a path that does not exist holds
Absent == <<"<no such file>">>

CodeA == <<"a", " ">>
CodeB == <<"b">>
Codes == {CodeA, CodeB}

\* stdout of a linter run
RatedReport == Marker \o <<" ", "9">>
Reports == {Empty, RatedReport}

\* what the model endpoint can do with a prompt: raise, or answer
FencedR == FenceR \o <<"x">> \o Fence
LLMTexts == {<<"x">>, FencedR}
LLMOutcomes ==
    {[exc |-> TRUE, text |-> Empty]}
        \cup {[exc |-> FALSE, text |-> t] : t \in LLMTexts}

standardized_file_path(file_path) ==
    CASE file_path = "a.py" -> "standardized_a.py"
      [] file_path = "b.r" -> "standardized_b.r"

Paths == Names \cup {standardized_file_path(n) : n \in Names}

\* what the external formatter turns a file's text into
black(code) == RStrip(code)

-----------------------------------------------------------------------------
(* Tool availability checkers and adapters.  Each returns the events it    *)
(* performed, the environment it leaves, the exception it raised ("none"   *)
(* when it returned) and its value.  ok: the install command succeeds.     *)

\* installs whether or not the probe found the tool
ensure_pylint_always_installs(T, ok) ==
    [events |-> <<<<"probe", "pylint">>, <<"install", "pylint">>>>,
     tools |-> IF ok THEN T \cup {"pylint"} ELSE T,
     raised |-> "none"]

ensure_pylint_installed(T, ok) ==
    IF "pylint" \in T
    THEN [events |-> <<<<"probe", "pylint">>>>, tools |-> T, raised |-> "none"]
    ELSE [events |-> <<<<"probe", "pylint">>, <<"install", "pylint">>>>,
          tools |-> IF ok THEN T \cup {"pylint"} ELSE T,
          raised |-> "none"]

ensure_black_installed(T, ok) ==
    IF "black" \in T
    THEN [events |-> <<<<"probe", "black">>>>, tools |-> T, raised |-> "none"]
    ELSE [events |-> <<<<"probe", "black">>, <<"install", "black">>>>,
          tools |-> IF ok THEN T \cup {"black"} ELSE T,
          raised |-> "none"]

ensure_lintr_installed(T, ok) ==
    IF "Rscript" \notin T
    THEN [events |-> <<<<"probe", "lintr">>>>, tools |-> T,
          raised |-> "FileNotFoundError"]
    ELSE IF "lintr" \in T
    THEN [events |-> <<<<"probe", "lintr">>>>, tools |-> T, raised |-> "none"]
    ELSE [events |-> <<<<"probe", "lintr">>, <<"install", "lintr">>>>,
          tools |-> IF ok THEN T \cup {"lintr"} ELSE T,
          raised |-> "none"]

\* out: what the linter prints for the file.  An installed tool is taken to
\* answer its version probe with exit status 0.
analyze_code_pylint(T, file_path, ok, out) ==
    LET e == ensure_pylint_installed(T, ok) IN
    IF "pylint" \in e.tools
    THEN [events |-> Append(e.events, <<"pylint", file_path>>),
          tools |-> e.tools, raised |-> "none", val |-> out]
    ELSE [events |-> Append(e.events, <<"pylint", file_path>>),
          tools |-> e.tools, raised |-> "FileNotFoundError", val |-> Empty]

analyze_code_lintr(T, file_path, ok, out) ==
    LET e == ensure_lintr_installed(T, ok) IN
    IF e.raised # "none"
    THEN [events |-> e.events, tools |-> e.tools, raised |-> e.raised,
          val |-> Empty]
    ELSE [events |-> Append(e.events, <<"lintr", file_path>>),
          tools |-> e.tools, raised |-> "none",
          val |-> IF "lintr" \in e.tools THEN out ELSE Empty]

\* the first half of format_code_black: the install check and the formatter
\* run, which rewrites the file in place when formats holds
run_black(T, F, file_path, ok, formats) ==
    LET e == ensure_black_installed(T, ok) IN
    IF "black" \in e.tools
    THEN [events |-> Append(e.events, <<"black", file_path>>),
          tools |-> e.tools, raised |-> "none",
          fs |-> IF formats /\ F[file_path] # Absent
                 THEN [F EXCEPT ![file_path] = black(F[file_path])] ELSE F]
    ELSE [events |-> Append(e.events, <<"black", file_path>>),
          tools |-> e.tools, raised |-> "FileNotFoundError", fs |-> F]

-----------------------------------------------------------------------------
(* Prompt builder and model client *)

\* no except clause: the exception of the model call propagates
call_gemini_llm_uncaught(p, outcome) ==
    IF outcome.exc
    THEN [val |-> Empty, calls |-> 1, errors |-> 0, raised |-> "Exception"]
    ELSE [val |-> outcome.text, calls |-> 1, errors |-> 0, raised |-> "none"]

call_gemini_llm(p, outcome) ==
    IF outcome.exc
    THEN [val |-> Empty, calls |-> 1, errors |-> 1, raised |-> "none"]
    ELSE [val |-> outcome.text, calls |-> 1, errors |-> 0, raised |-> "none"]

prompt_pylint(code, report) ==
    <<"\n    Given the following Python code and the Pylint report, improve the code to address all issues and achieve a Pylint score greater than 8.\n    Include only the necessary docstrings and avoid redundant explanations.\n\n    Original Code:\n    ">>
        \o code \o <<"\n\n    Pylint Report:\n    ">> \o report
        \o <<"\n\n    Improved Code:\n    ">>

prompt_black(code) ==
    <<"\n    Given the following Python code, format it according to the Black code style.\n\n    Original Code:\n    ">>
        \o code \o <<"\n\n    Improved Code:\n    ">>

\* the template names the report and does not substitute it
prompt_lintr(code, report) ==
    <<"\n    Given the following R code and the lintr report, improve the code to address all issues according to R's best practices.\n    Include only the necessary comments and avoid redundant explanations.\n\n    Original Code:\n    ">>
        \o code \o <<"\n\n  \n\n    Improved Code:\n    ">>

prompt_summarize(code, language) ==
    <<"\n    Summarize the following ", language,
      " code. Provide a concise explanation of what the code does.\n\n    Code:\n    ">>
        \o code \o <<"\n\n    Summary:\n    ">>

prompt_python_to_r(python_code) ==
    <<"\n    Translate the following Python code into R code.\n\n    Python Code:\n    ">>
        \o python_code \o <<"\n\n    R Code:\n    ">>

prompt_r_to_python(r_code) ==
    <<"\n    Translate the following R code into Python code.\n\n    R Code:\n    ">>
        \o r_code \o <<"\n\n    Python Code:\n    ">>

\* only the tagged fence is replaced
strip_python_tag_only(text) == Replace(text, FencePython, Space)

\* the model's reply as each of the six functions hands it back
strip_python(text) == Replace(Replace(text, FencePython, Space), Fence, Space)

strip_r(text) == Replace(Replace(text, FenceR, Space), Fence, Space)

standardize_code_pylint(code, report, outcome) ==
    LET r == call_gemini_llm(prompt_pylint(code, report), outcome) IN
    [r EXCEPT !.val = strip_python(r.val)]

standardize_code_black(code, outcome) ==
    LET r == call_gemini_llm(prompt_black(code), outcome) IN
    [r EXCEPT !.val = strip_python(r.val)]

standardize_code_lintr(code, report, outcome) ==
    LET r == call_gemini_llm(prompt_lintr(code, report), outcome) IN
    [r EXCEPT !.val = strip_r(r.val)]

summarize_code(code, language, outcome) ==
    call_gemini_llm(prompt_summarize(code, language), outcome)

\* a translation that strips fences as the rewriting functions do
translate_python_to_r_stripped(python_code, outcome) ==
    LET r == call_gemini_llm(prompt_python_to_r(python_code), outcome) IN
    [r EXCEPT !.val = strip_r(r.val)]

translate_python_to_r(python_code, outcome) ==
    call_gemini_llm(prompt_python_to_r(python_code), outcome)

\* a translation that asks the model again when the first answer is empty
translate_r_to_python_retry(r_code, outcome) ==
    LET r == call_gemini_llm(prompt_r_to_python(r_code), outcome) IN
    IF r.val = Empty THEN [r EXCEPT !.calls = 2] ELSE r

translate_r_to_python(r_code, outcome) ==
    call_gemini_llm(prompt_r_to_python(r_code), outcome)

-----------------------------------------------------------------------------
(* main(): one run of the script per submission *)

NoUpload == [name |-> "", data |-> Absent]
Uploads == {NoUpload} \cup {[name |-> n, data |-> d] : n \in Names, d \in Codes}

TranslateChoices ==
    {[action |-> "Translate", language |-> l, standardizer |-> "none",
      button |-> b, text |-> t] :
        l \in Languages, b \in BOOLEAN, t \in {Empty, CodeB}}

StandardizeChoices ==
    {[action |-> "Standardize", language |-> l, standardizer |-> z,
      button |-> FALSE, text |-> Empty] :
        l \in Languages, z \in Standardizers}

NoChoice == [action |-> "none", language |-> "Python", standardizer |-> "none",
             button |-> FALSE, text |-> Empty]

Finished == {"idle", "done", "crashed"}

\* the step of the Standardize path that follows the summary
Branch(c) ==
    IF c.language = "Python" /\ c.standardizer = "Pylint" THEN "analyze_pylint"
    ELSE IF c.language = "Python" /\ c.standardizer = "Black" THEN "format_black"
    ELSE IF c.language = "R" /\ c.standardizer = "lintr" THEN "analyze_lintr"
    ELSE "download"

\* the step that follows an adapter or a file access
After(r, next) == IF r.raised = "none" THEN next ELSE "crashed"

FlowInit ==
    /\ pc = [s \in Sessions |-> "idle"]
    /\ choice = [s \in Sessions |-> NoChoice]
    /\ upload = [s \in Sessions |-> NoUpload]
    /\ original_code = [s \in Sessions |-> Empty]
    /\ summary = [s \in Sessions |-> Empty]
    /\ lint_report = [s \in Sessions |-> Empty]
    /\ standardized_code = [s \in Sessions |-> Empty]
    /\ new_lint_report = [s \in Sessions |-> Empty]
    /\ new_pylint_score = [s \in Sessions |-> Empty]
    /\ translated_code = [s \in Sessions |-> Empty]
    /\ download = [s \in Sessions |-> Absent]
    /\ prompt = [s \in Sessions |-> Empty]
    /\ trace = [s \in Sessions |-> << >>]
    /\ llm_calls = [s \in Sessions |-> 0]
    /\ st_errors = [s \in Sessions |-> 0]
    /\ raised = [s \in Sessions |-> "none"]
    /\ fs = [p \in Paths |-> Absent]

\* a submission: the widgets' values for this run of main()
Submit(s, c, u) ==
    /\ pc[s] \in Finished
    /\ c.action = "Translate" => u = NoUpload
    /\ pc' = [pc EXCEPT ![s] = "main"]
    /\ choice' = [choice EXCEPT ![s] = c]
    /\ upload' = [upload EXCEPT ![s] = u]
    /\ original_code' = [original_code EXCEPT ![s] = Empty]
    /\ summary' = [summary EXCEPT ![s] = Empty]
    /\ lint_report' = [lint_report EXCEPT ![s] = Empty]
    /\ standardized_code' = [standardized_code EXCEPT ![s] = Empty]
    /\ new_lint_report' = [new_lint_report EXCEPT ![s] = Empty]
    /\ new_pylint_score' = [new_pylint_score EXCEPT ![s] = Empty]
    /\ translated_code' = [translated_code EXCEPT ![s] = Empty]
    /\ download' = [download EXCEPT ![s] = Absent]
    /\ prompt' = [prompt EXCEPT ![s] = Empty]
    /\ trace' = [trace EXCEPT ![s] = << >>]
    /\ llm_calls' = [llm_calls EXCEPT ![s] = 0]
    /\ st_errors' = [st_errors EXCEPT ![s] = 0]
    /\ raised' = [raised EXCEPT ![s] = "none"]
    /\ UNCHANGED <<fs, tools>>

\* the bookkeeping of one model call made by session s
Called(s, p, r, kind, next) ==
    /\ prompt' = [prompt EXCEPT ![s] = p]
    /\ llm_calls' = [llm_calls EXCEPT ![s] = @ + r.calls]
    /\ st_errors' = [st_errors EXCEPT ![s] = @ + r.errors]
    /\ trace' = [trace EXCEPT ![s] = Append(@, <<"llm", kind>>)]
    /\ raised' = [raised EXCEPT ![s] = r.raised]
    /\ pc' = [pc EXCEPT ![s] = After(r, next)]

\* lines 187-201: the Translate branch, either language
Translate(s, outcome) ==
    /\ pc[s] = "main"
    /\ choice[s].action = "Translate"
    /\ IF choice[s].button
       THEN LET r == IF choice[s].language = "Python"
                     THEN translate_python_to_r(choice[s].text, outcome)
                     ELSE translate_r_to_python(choice[s].text, outcome)
                p == IF choice[s].language = "Python"
                     THEN prompt_python_to_r(choice[s].text)
                     ELSE prompt_r_to_python(choice[s].text)
            IN /\ Called(s, p, r, "translate", "done")
               /\ translated_code' = [translated_code EXCEPT ![s] = r.val]
       ELSE /\ pc' = [pc EXCEPT ![s] = "done"]
            /\ UNCHANGED <<translated_code, prompt, llm_calls, st_errors,
                           trace, raised>>
    /\ UNCHANGED <<choice, upload, original_code, summary, lint_report,
                   standardized_code, new_lint_report, new_pylint_score,
                   download, fs, tools>>

\* lines 207-208: Standardize with no file uploaded
NoFile(s) ==
    /\ pc[s] = "main"
    /\ choice[s].action = "Standardize"
    /\ upload[s] = NoUpload
    /\ pc' = [pc EXCEPT ![s] = "done"]
    /\ UNCHANGED <<choice, upload, original_code, summary, lint_report,
                   standardized_code, new_lint_report, new_pylint_score,
                   translated_code, download, prompt, trace, llm_calls,
                   st_errors, raised, fs, tools>>

\* a save that waits while another session works on a file of that name
SaveUploadLocked(s) ==
    /\ pc[s] = "main"
    /\ choice[s].action = "Standardize"
    /\ upload[s] # NoUpload
    /\ \A t \in Sessions \ {s} :
           upload[t].name = upload[s].name => pc[t] \in Finished \cup {"main"}
    /\ fs' = [fs EXCEPT ![upload[s].name] = upload[s].data]
    /\ trace' = [trace EXCEPT ![s] = Append(@, <<"save", upload[s].name>>)]
    /\ pc' = [pc EXCEPT ![s] = "read"]
    /\ UNCHANGED <<choice, upload, original_code, summary, lint_report,
                   standardized_code, new_lint_report, new_pylint_score,
                   translated_code, download, prompt, llm_calls, st_errors,
                   raised, tools>>

\* lines 209-211
SaveUpload(s) ==
    /\ pc[s] = "main"
    /\ choice[s].action = "Standardize"
    /\ upload[s] # NoUpload
    /\ fs' = [fs EXCEPT ![upload[s].name] = upload[s].data]
    /\ trace' = [trace EXCEPT ![s] = Append(@, <<"save", upload[s].name>>)]
    /\ pc' = [pc EXCEPT ![s] = "read"]
    /\ UNCHANGED <<choice, upload, original_code, summary, lint_report,
                   standardized_code, new_lint_report, new_pylint_score,
                   translated_code, download, prompt, llm_calls, st_errors,
                   raised, tools>>

\* lines 214-215
ReadOriginal(s) ==
    /\ pc[s] = "read"
    /\ original_code' = [original_code EXCEPT ![s] = fs[upload[s].name]]
    /\ trace' = [trace EXCEPT ![s] = Append(@, <<"read", upload[s].name>>)]
    /\ pc' = [pc EXCEPT ![s] = "summarize"]
    /\ UNCHANGED <<choice, upload, summary, lint_report, standardized_code,
                   new_lint_report, new_pylint_score, translated_code,
                   download, prompt, llm_calls, st_errors, raised, fs, tools>>

\* lines 218-223
Summarize(s, outcome) ==
    /\ pc[s] = "summarize"
    /\ LET r == summarize_code(original_code[s], choice[s].language, outcome)
       IN /\ Called(s, prompt_summarize(original_code[s], choice[s].language),
                    r, "summarize", Branch(choice[s]))
          /\ summary' = [summary EXCEPT ![s] = r.val]
    /\ UNCHANGED <<choice, upload, original_code, lint_report,
                   standardized_code, new_lint_report, new_pylint_score,
                   translated_code, download, fs, tools>>

\* lines 227-229
AnalyzePylint(s, ok, out) ==
    /\ pc[s] = "analyze_pylint"
    /\ LET r == analyze_code_pylint(tools, upload[s].name, ok, out)
       IN /\ tools' = r.tools
          /\ trace' = [trace EXCEPT ![s] = @ \o r.events]
          /\ raised' = [raised EXCEPT ![s] = r.raised]
          /\ lint_report' = [lint_report EXCEPT ![s] = r.val]
          /\ pc' = [pc EXCEPT ![s] = After(r, "improve_pylint")]
    /\ UNCHANGED <<choice, upload, original_code, summary, standardized_code,
                   new_lint_report, new_pylint_score, translated_code,
                   download, prompt, llm_calls, st_errors, fs>>

\* lines 231-232
ImprovePylint(s, outcome) ==
    /\ pc[s] = "improve_pylint"
    /\ LET r == standardize_code_pylint(original_code[s], lint_report[s],
                                        outcome)
       IN /\ Called(s, prompt_pylint(original_code[s], lint_report[s]),
                    r, "improve", "write")
          /\ standardized_code' = [standardized_code EXCEPT ![s] = r.val]
    /\ UNCHANGED <<choice, upload, original_code, summary, lint_report,
                   new_lint_report, new_pylint_score, translated_code,
                   download, fs, tools>>

\* lines 256 and 59-60: the install check and the formatter run
FormatBlack(s, ok, formats) ==
    /\ pc[s] = "format_black"
    /\ LET r == run_black(tools, fs, upload[s].name, ok, formats)
       IN /\ tools' = r.tools
          /\ fs' = r.fs
          /\ trace' = [trace EXCEPT ![s] = @ \o r.events]
          /\ raised' = [raised EXCEPT ![s] = r.raised]
          /\ pc' = [pc EXCEPT ![s] = After(r, "read_formatted")]
    /\ UNCHANGED <<choice, upload, original_code, summary, lint_report,
                   standardized_code, new_lint_report, new_pylint_score,
                   translated_code, download, prompt, llm_calls, st_errors>>

\* lines 61-63: format_code_black reads the file back
ReadFormatted(s) ==
    /\ pc[s] = "read_formatted"
    /\ standardized_code' =
           [standardized_code EXCEPT ![s] = fs[upload[s].name]]
    /\ pc' = [pc EXCEPT ![s] = "write"]
    /\ UNCHANGED <<choice, upload, original_code, summary, lint_report,
                   new_lint_report, new_pylint_score, translated_code,
                   download, prompt, trace, llm_calls, st_errors, raised,
                   fs, tools>>

\* lines 270-272
AnalyzeLintr(s, ok, out) ==
    /\ pc[s] = "analyze_lintr"
    /\ LET r == analyze_code_lintr(tools, upload[s].name, ok, out)
       IN /\ tools' = r.tools
          /\ trace' = [trace EXCEPT ![s] = @ \o r.events]
          /\ raised' = [raised EXCEPT ![s] = r.raised]
          /\ lint_report' = [lint_report EXCEPT ![s] = r.val]
          /\ pc' = [pc EXCEPT ![s] = After(r, "improve_lintr")]
    /\ UNCHANGED <<choice, upload, original_code, summary, standardized_code,
                   new_lint_report, new_pylint_score, translated_code,
                   download, prompt, llm_calls, st_errors, fs>>

\* lines 274-275
ImproveLintr(s, outcome) ==
    /\ pc[s] = "improve_lintr"
    /\ LET r == standardize_code_lintr(original_code[s], lint_report[s],
                                       outcome)
       IN /\ Called(s, prompt_lintr(original_code[s], lint_report[s]),
                    r, "improve", "write")
          /\ standardized_code' = [standardized_code EXCEPT ![s] = r.val]
    /\ UNCHANGED <<choice, upload, original_code, summary, lint_report,
                   new_lint_report, new_pylint_score, translated_code,
                   download, fs, tools>>

\* the write without the re-analysis that follows it on the Pylint path
WriteStandardizedOnly(s) ==
    /\ pc[s] = "write"
    /\ fs' = [fs EXCEPT ![standardized_file_path(upload[s].name)] =
                            standardized_code[s]]
    /\ trace' = [trace EXCEPT ![s] =
           Append(@, <<"write", standardized_file_path(upload[s].name)>>)]
    /\ pc' = [pc EXCEPT ![s] = "download"]
    /\ UNCHANGED <<choice, upload, original_code, summary, lint_report,
                   standardized_code, new_lint_report, new_pylint_score,
                   translated_code, download, prompt, llm_calls, st_errors,
                   raised, tools>>

\* lines 235-236, 259-260, 278-279
WriteStandardized(s) ==
    /\ pc[s] = "write"
    /\ fs' = [fs EXCEPT ![standardized_file_path(upload[s].name)] =
                            standardized_code[s]]
    /\ trace' = [trace EXCEPT ![s] =
           Append(@, <<"write", standardized_file_path(upload[s].name)>>)]
    /\ pc' = [pc EXCEPT ![s] =
           IF choice[s].standardizer = "Pylint" THEN "reanalyze"
           ELSE "download"]
    /\ UNCHANGED <<choice, upload, original_code, summary, lint_report,
                   standardized_code, new_lint_report, new_pylint_score,
                   translated_code, download, prompt, llm_calls, st_errors,
                   raised, tools>>

\* lines 245-248
ReanalyzePylint(s, ok, out) ==
    /\ pc[s] = "reanalyze"
    /\ LET r == analyze_code_pylint(
                    tools, standardized_file_path(upload[s].name), ok, out)
       IN /\ tools' = r.tools
          /\ trace' = [trace EXCEPT ![s] = @ \o r.events]
          /\ raised' = [raised EXCEPT ![s] = r.raised]
          /\ new_lint_report' = [new_lint_report EXCEPT ![s] = r.val]
          /\ pc' = [pc EXCEPT ![s] = After(r, "score")]
    /\ UNCHANGED <<choice, upload, original_code, summary, lint_report,
                   standardized_code, new_pylint_score, translated_code,
                   download, prompt, llm_calls, st_errors, fs>>

\* lines 251-253
ExtractScore(s) ==
    /\ pc[s] = "score"
    /\ new_pylint_score' = [new_pylint_score EXCEPT ![s] =
           extract_pylint_score(new_lint_report[s])]
    /\ trace' = [trace EXCEPT ![s] = Append(@, <<"score", "new">>)]
    /\ pc' = [pc EXCEPT ![s] = "download"]
    /\ UNCHANGED <<choice, upload, original_code, summary, lint_report,
                   standardized_code, new_lint_report, translated_code,
                   download, prompt, llm_calls, st_errors, raised, fs, tools>>

\* lines 288-292
OfferDownload(s) ==
    /\ pc[s] = "download"
    /\ LET path == standardized_file_path(upload[s].name) IN
       IF fs[path] = Absent
       THEN /\ raised' = [raised EXCEPT ![s] = "FileNotFoundError"]
            /\ pc' = [pc EXCEPT ![s] = "crashed"]
            /\ UNCHANGED <<download, trace>>
       ELSE /\ download' = [download EXCEPT ![s] = fs[path]]
            /\ trace' = [trace EXCEPT ![s] = Append(@, <<"download", path>>)]
            /\ pc' = [pc EXCEPT ![s] = "done"]
            /\ UNCHANGED raised
    /\ UNCHANGED <<choice, upload, original_code, summary, lint_report,
                   standardized_code, new_lint_report, new_pylint_score,
                   translated_code, prompt, llm_calls, st_errors, fs, tools>>

\* the host environments the script can start in
Hosts == {T \in SUBSET Tools : "lintr" \in T => "Rscript" \in T}

PureIdle == arg = Empty /\ called = "none" /\ ret = Empty

(* Single session: one submission at a time, as section 5 of the           *)
(* specification has it.                                                   *)
Init == FlowInit /\ tools \in Hosts /\ PureIdle

\* the session that submits
User == "u1"

Next ==
    \/ \E c \in TranslateChoices \cup StandardizeChoices, u \in Uploads :
           Submit(User, c, u) /\ UNCHANGED pureVars
    \/ \E outcome \in LLMOutcomes :
           Translate(User, outcome) /\ UNCHANGED pureVars
    \/ NoFile(User) /\ UNCHANGED pureVars
    \/ SaveUpload(User) /\ UNCHANGED pureVars
    \/ ReadOriginal(User) /\ UNCHANGED pureVars
    \/ \E outcome \in LLMOutcomes :
           Summarize(User, outcome) /\ UNCHANGED pureVars
    \/ \E ok \in BOOLEAN, out \in Reports :
           AnalyzePylint(User, ok, out) /\ UNCHANGED pureVars
    \/ \E outcome \in LLMOutcomes :
           ImprovePylint(User, outcome) /\ UNCHANGED pureVars
    \/ \E ok \in BOOLEAN, formats \in BOOLEAN :
           FormatBlack(User, ok, formats) /\ UNCHANGED pureVars
    \/ ReadFormatted(User) /\ UNCHANGED pureVars
    \/ \E ok \in BOOLEAN, out \in Reports :
           AnalyzeLintr(User, ok, out) /\ UNCHANGED pureVars
    \/ \E outcome \in LLMOutcomes :
           ImproveLintr(User, outcome) /\ UNCHANGED pureVars
    \/ WriteStandardized(User) /\ UNCHANGED pureVars
    \/ \E ok \in BOOLEAN, out \in Reports :
           ReanalyzePylint(User, ok, out) /\ UNCHANGED pureVars
    \/ ExtractScore(User) /\ UNCHANGED pureVars
    \/ OfferDownload(User) /\ UNCHANGED pureVars

Spec == Init /\ [][Next]_vars

-----------------------------------------------------------------------------
(* Two sessions of the same deployment, each running main() in its own     *)
(* script thread against the one working directory.  Both upload under the *)
(* same name, with different content.                                      *)

RaceUpload(s) ==
    IF s = "u1" THEN [name |-> "a.py", data |-> CodeA]
    ELSE [name |-> "a.py", data |-> CodeB]

RaceOutcomes == {[exc |-> FALSE, text |-> FencedR]}
RaceReports == {RatedReport}

InitRace == FlowInit /\ tools = Tools /\ PureIdle

NextRace ==
    \/ \E s \in Sessions, c \in StandardizeChoices :
           Submit(s, c, RaceUpload(s)) /\ UNCHANGED pureVars
    \/ \E s \in Sessions : SaveUpload(s) /\ UNCHANGED pureVars
    \/ \E s \in Sessions : ReadOriginal(s) /\ UNCHANGED pureVars
    \/ \E s \in Sessions, outcome \in RaceOutcomes :
           Summarize(s, outcome) /\ UNCHANGED pureVars
    \/ \E s \in Sessions, out \in RaceReports :
           AnalyzePylint(s, TRUE, out) /\ UNCHANGED pureVars
    \/ \E s \in Sessions, outcome \in RaceOutcomes :
           ImprovePylint(s, outcome) /\ UNCHANGED pureVars
    \/ \E s \in Sessions, formats \in BOOLEAN :
           FormatBlack(s, TRUE, formats) /\ UNCHANGED pureVars
    \/ \E s \in Sessions : ReadFormatted(s) /\ UNCHANGED pureVars
    \/ \E s \in Sessions, out \in RaceReports :
           AnalyzeLintr(s, TRUE, out) /\ UNCHANGED pureVars
    \/ \E s \in Sessions, outcome \in RaceOutcomes :
           ImproveLintr(s, outcome) /\ UNCHANGED pureVars
    \/ \E s \in Sessions : WriteStandardized(s) /\ UNCHANGED pureVars
    \/ \E s \in Sessions, out \in RaceReports :
           ReanalyzePylint(s, TRUE, out) /\ UNCHANGED pureVars
    \/ \E s \in Sessions : ExtractScore(s) /\ UNCHANGED pureVars
    \/ \E s \in Sessions : OfferDownload(s) /\ UNCHANGED pureVars

SpecRace == InitRace /\ [][NextRace]_vars

-----------------------------------------------------------------------------
(* The two string functions on their own, over all short inputs *)

ResponsePieces == {<<Tick>>, Fence, FencePython, FenceR, <<"x">>, <<"\n">>}
ResponseInputs ==
    {Concat(ps) : ps \in SeqsUpTo(ResponsePieces, MaxResponsePieces)}

Answer(text) == [exc |-> FALSE, text |-> text]

Apply(f, v) ==
    /\ called = "none"
    /\ called' = f
    /\ ret' = v
    /\ UNCHANGED arg

InitScore == FlowInit /\ tools = Tools /\ arg \in ReportInputs
                 /\ called = "none" /\ ret = Empty

NextScore ==
    \/ Apply("extract_pylint_score", extract_pylint_score(arg))
           /\ UNCHANGED flowVars

SpecScore == InitScore /\ [][NextScore]_vars

InitFence == FlowInit /\ tools = Tools /\ arg \in ResponseInputs
                 /\ called = "none" /\ ret = Empty

NextFence ==
    \/ Apply("standardize_code_pylint",
             standardize_code_pylint(CodeA, RatedReport, Answer(arg)).val)
           /\ UNCHANGED flowVars
    \/ Apply("standardize_code_black",
             standardize_code_black(CodeA, Answer(arg)).val)
           /\ UNCHANGED flowVars
    \/ Apply("standardize_code_lintr",
             standardize_code_lintr(CodeA, RatedReport, Answer(arg)).val)
           /\ UNCHANGED flowVars
    \/ Apply("summarize_code", summarize_code(CodeA, "Python", Answer(arg)).val)
           /\ UNCHANGED flowVars
    \/ Apply("translate_python_to_r",
             translate_python_to_r(CodeA, Answer(arg)).val)
           /\ UNCHANGED flowVars
    \/ Apply("translate_r_to_python",
             translate_r_to_python(CodeA, Answer(arg)).val)
           /\ UNCHANGED flowVars

SpecFence == InitFence /\ [][NextFence]_vars

-----------------------------------------------------------------------------
(* Properties of the two string functions *)

\* the lines of the report under test, and those that hold the marker
ArgLines == splitlines(arg)
Rated == {i \in 1..Len(ArgLines) : Contains(ArgLines[i], Marker)}
FirstRatedLine == ArgLines[CHOOSE i \in Rated : \A j \in Rated : i <= j]

\* t is s without the whitespace at its two ends
IsStripOf(t, s) ==
    \E i \in 1..Len(s), j \in 1..Len(s) :
        /\ t = SubSeq(s, i, j)
        /\ s[i] \notin Whitespace
        /\ s[j] \notin Whitespace
        /\ \A k \in 1..Len(s) : (k < i \/ k > j) => s[k] \in Whitespace

\* C4 as stated: extract_pylint_score returns the first line that holds the
\* marker exactly as it stands in the report, and the fallback string if and
\* only if no line holds the marker.
C4_Verbatim ==
    called = "extract_pylint_score" =>
        /\ Rated # {} => ret = FirstRatedLine
        /\ ret = Fallback <=> Rated = {}

\* C4 amended: extract_pylint_score returns the first line that holds the
\* marker with the whitespace at its two ends removed, and the fallback
\* string if and only if no line holds the marker.
C4_Stripped ==
    called = "extract_pylint_score" =>
        /\ Rated # {} => IsStripOf(ret, FirstRatedLine)
        /\ ret = Fallback <=> Rated = {}

\* a report with two rated lines, the first of them padded
C4_Witness ==
    /\ called = "extract_pylint_score"
    /\ Cardinality(Rated) >= 2
    /\ ret # FirstRatedLine
    /\ ret = Marker

Rewriters ==
    {"standardize_code_pylint", "standardize_code_black",
     "standardize_code_lintr"}

TagOf(f) ==
    IF f \in {"standardize_code_lintr", "translate_python_to_r"}
    THEN FenceR ELSE FencePython

\* C5: whatever the model answers, the text the three standardize functions
\* return holds no run of three backticks, and neither replacement adds an
\* occurrence of one.
C5_NoFenceLeft ==
    called \in Rewriters =>
        /\ ~Contains(ret, Fence)
        /\ CountOcc(Replace(arg, TagOf(called), Space), Fence)
               <= CountOcc(arg, Fence)
        /\ CountOcc(ret, Fence)
               <= CountOcc(Replace(arg, TagOf(called), Space), Fence)

\* an answer with a tagged fence inside a longer run of backticks and a
\* second fence
C5_Witness ==
    /\ called = "standardize_code_pylint"
    /\ Contains(arg, <<Tick>> \o FencePython)
    /\ CountOcc(arg, Fence) >= 3
    /\ Contains(ret, <<Tick>>)

\* C6 as stated: each of the five templates hands back the model's answer
\* with the fence markers of its language stripped, so that an answer
\* wrapped in a tagged fence comes back without any fence.
C6_AllStripped ==
    called # "none" =>
        /\ ret = Replace(Replace(arg, TagOf(called), Space), Fence, Space)
        /\ Contains(arg, TagOf(called)) => ~Contains(ret, Fence)

\* C6 amended: the three standardize functions hand back the answer with
\* the tagged fence and then every remaining fence replaced by a space (so
\* an answer without a fence comes back unchanged); summarize_code and both
\* translate functions hand back the answer unchanged, fences included.
C6_OnlyRewritersStrip ==
    /\ called \in Rewriters =>
           /\ ~Contains(ret, Fence)
           /\ ~Contains(arg, Fence) => ret = arg
           /\ Contains(arg, Fence) => Contains(ret, Space) /\ ret # arg
    /\ called \notin Rewriters \cup {"none"} => ret = arg

\* a translation whose answer is wrapped in an r-tagged fence
C6_Witness ==
    /\ called = "translate_python_to_r"
    /\ OccursAt(arg, FenceR, 1)
    /\ Contains(ret, FenceR)

-----------------------------------------------------------------------------
(* Properties of the Standardize and Translate paths, one session *)

IsStep(e) == e[1] \notin {"probe", "install"}

\* the steps of main() a session has performed, install checks left out
MainSteps(s) == SelectSeq(trace[s], IsStep)

IsPrefix(a, b) == Len(a) <= Len(b) /\ a = SubSeq(b, 1, Len(a))

Std(s) == standardized_file_path(upload[s].name)

Standardizing(s) == choice[s].action = "Standardize" /\ upload[s] # NoUpload

On(s, language, standardizer) ==
    /\ Standardizing(s)
    /\ choice[s].language = language
    /\ choice[s].standardizer = standardizer

ToolOf(s) ==
    CASE choice[s].standardizer = "Pylint" -> "pylint"
      [] choice[s].standardizer = "Black" -> "black"
      [] choice[s].standardizer = "lintr" -> "lintr"

\* save, read, summarize, analyze or format, improve, write, re-analyze,
\* score, download
NineSteps(s, tool) ==
    <<<<"save", upload[s].name>>, <<"read", upload[s].name>>,
      <<"llm", "summarize">>, <<tool, upload[s].name>>, <<"llm", "improve">>,
      <<"write", Std(s)>>, <<tool, Std(s)>>, <<"score", "new">>,
      <<"download", Std(s)>>>>

BlackSteps(s) ==
    <<<<"save", upload[s].name>>, <<"read", upload[s].name>>,
      <<"llm", "summarize">>, <<"black", upload[s].name>>,
      <<"write", Std(s)>>, <<"download", Std(s)>>>>

LintrSteps(s) ==
    <<<<"save", upload[s].name>>, <<"read", upload[s].name>>,
      <<"llm", "summarize">>, <<"lintr", upload[s].name>>,
      <<"llm", "improve">>, <<"write", Std(s)>>, <<"download", Std(s)>>>>

OtherSteps(s) ==
    <<<<"save", upload[s].name>>, <<"read", upload[s].name>>,
      <<"llm", "summarize">>, <<"download", Std(s)>>>>

StepsOf(s) ==
    IF On(s, "Python", "Pylint") THEN NineSteps(s, "pylint")
    ELSE IF On(s, "Python", "Black") THEN BlackSteps(s)
    ELSE IF On(s, "R", "lintr") THEN LintrSteps(s)
    ELSE OtherSteps(s)

\* C1 as stated: every Standardize submission with an uploaded file,
\* whatever the language and the standardizer, has performed the nine steps
\* once each and in order when it ends.
C1_NineStepsAlways ==
    \A s \in Sessions :
        pc[s] = "done" /\ Standardizing(s) =>
            MainSteps(s) = NineSteps(s, ToolOf(s))

\* C1 amended: a Python/Pylint submission performs the nine steps in that
\* order, each at most once, and all nine when it ends without an unhandled
\* error; Python/Black performs save, read, summarize, format, write,
\* download; R/lintr performs save, read, summarize, analyze, improve,
\* write, download; every other combination performs save, read, summarize
\* and the download.
C1_StepsPerPath ==
    \A s \in Sessions :
        Standardizing(s) =>
            /\ IsPrefix(MainSteps(s), StepsOf(s))
            /\ pc[s] = "done" => MainSteps(s) = StepsOf(s)

\* a Python/Pylint submission that has run to its end
C1_Witness ==
    \E s \in Sessions :
        /\ pc[s] = "done"
        /\ On(s, "Python", "Pylint")
        /\ Len(MainSteps(s)) = 9
        /\ download[s] = standardized_code[s]

\* the events session s adds to its trace in a step
NewEvents(s) == SubSeq(trace'[s], Len(trace[s]) + 1, Len(trace'[s]))

ModelCallAt == {"main", "summarize", "improve_pylint", "improve_lintr"}
ToolOrFileAt ==
    {"analyze_pylint", "reanalyze", "format_black", "analyze_lintr",
     "download"}

Count(ev, kind) == Cardinality({i \in 1..Len(ev) : ev[i][1] = kind})

\* in ev an install comes before the one analysis, which is the last event
InstallFirst(ev, tool) ==
    /\ Count(ev, "install") = 1
    /\ Count(ev, tool) = 1
    /\ ev[Len(ev)][1] = tool
    /\ \E i \in 1..(Len(ev) - 1) : ev[i] = <<"install", tool>>

AnalyzerAt(s) ==
    IF pc[s] = "analyze_lintr" THEN "lintr" ELSE "pylint"

\* C3 as stated: an invocation of either analyzer adapter while its tool is
\* absent (for lintr: the package absent, the R interpreter there) makes
\* exactly one install attempt, before the analysis; when the install did
\* not succeed the analysis fails visibly; when the tool is present no
\* install attempt is made.
C3_InstallOnceOrFail ==
    [][\A s \in Sessions :
          pc[s] \in {"analyze_pylint", "reanalyze", "analyze_lintr"}
              /\ pc'[s] # pc[s] =>
          LET tool == AnalyzerAt(s)
              ev == NewEvents(s)
          IN /\ tool \notin tools /\ (tool = "lintr" => "Rscript" \in tools) =>
                    /\ Count(ev, "install") = 1
                    /\ tool \in tools' => InstallFirst(ev, tool)
                    /\ tool \notin tools' => pc'[s] = "crashed"
             /\ tool \in tools => Count(ev, "install") = 0
      ]_vars

\* C3 amended: analyze_code_pylint behaves as stated.  analyze_code_lintr,
\* when the lintr package is absent and Rscript is present, makes exactly
\* one install attempt before the analysis, and when the install did not
\* succeed the analysis does not fail visibly: it returns an empty report
\* and the submission goes on; when Rscript itself is absent the check
\* raises, with no install attempt and no analysis; when lintr is present no
\* install attempt is made.
C3_InstallPerAdapter ==
    [][\A s \in Sessions :
          /\ pc[s] \in {"analyze_pylint", "reanalyze"} /\ pc'[s] # pc[s] =>
                 LET ev == NewEvents(s) IN
                 /\ "pylint" \notin tools =>
                        /\ InstallFirst(ev, "pylint")
                        /\ "pylint" \notin tools' =>
                               /\ pc'[s] = "crashed"
                               /\ raised'[s] = "FileNotFoundError"
                        /\ "pylint" \in tools' => pc'[s] # "crashed"
                 /\ "pylint" \in tools =>
                        Count(ev, "install") = 0 /\ pc'[s] # "crashed"
          /\ pc[s] = "analyze_lintr" /\ pc'[s] # pc[s] =>
                 LET ev == NewEvents(s) IN
                 /\ "Rscript" \notin tools =>
                        /\ Count(ev, "install") = 0
                        /\ Count(ev, "lintr") = 0
                        /\ pc'[s] = "crashed"
                 /\ "Rscript" \in tools /\ "lintr" \notin tools =>
                        /\ InstallFirst(ev, "lintr")
                        /\ pc'[s] = "improve_lintr"
                        /\ "lintr" \notin tools' => lint_report'[s] = Empty
                 /\ "lintr" \in tools =>
                        Count(ev, "install") = 0 /\ pc'[s] = "improve_lintr"
      ]_vars

\* a lintr analysis that went on with an empty report after the one install
\* attempt failed
C3_Witness ==
    \E s \in Sessions :
        /\ pc[s] = "improve_lintr"
        /\ "lintr" \notin tools
        /\ trace[s][Len(trace[s]) - 1] = <<"install", "lintr">>
        /\ trace[s][Len(trace[s])] = <<"lintr", upload[s].name>>
        /\ lint_report[s] = Empty

\* C7: what a submission offers for download was written to
\* standardized_<name> by that same submission, and a submission never
\* fails for want of a file an earlier submission would have left.
C7_DownloadIsOwnWrite ==
    \A s \in Sessions :
        /\ pc[s] = "done" /\ Standardizing(s) =>
               /\ Count(trace[s], "write") = 1
               /\ download[s] = standardized_code[s]
        /\ pc[s] = "crashed" =>
               ~(Branch(choice[s]) = "download" /\ Len(MainSteps(s)) = 3)

\* C8: a Translate submission makes one model call when its button is
\* pressed and none otherwise, and touches neither the working directory
\* nor the tools.
C8_TranslateFrame ==
    [][\A s \in Sessions :
          pc[s] = "main" /\ choice[s].action = "Translate"
              /\ pc'[s] # pc[s] =>
          /\ pc'[s] = "done"
          /\ fs' = fs
          /\ tools' = tools
          /\ llm_calls[s] = 0
          /\ llm_calls'[s] = IF choice[s].button THEN 1 ELSE 0
          /\ trace'[s] = IF choice[s].button
                         THEN <<<<"llm", "translate">>>> ELSE << >>
      ]_vars

\* a translation of the empty text, R to Python, done with its one call
C8_Witness ==
    \E s \in Sessions :
        /\ pc[s] = "done"
        /\ choice[s].action = "Translate"
        /\ choice[s].language = "R"
        /\ choice[s].button
        /\ choice[s].text = Empty
        /\ llm_calls[s] = 1
        /\ fs # [p \in Paths |-> Absent]

\* C10: on both lint-based paths the improvement prompt holds the original
\* code and the report the analyzer returned in this submission.
C10_PromptEmbedsReport ==
    \A s \in Sessions :
        pc[s] = "write" /\ choice[s].standardizer \in {"Pylint", "lintr"} =>
            /\ Contains(prompt[s], original_code[s])
            /\ Contains(prompt[s], lint_report[s])

-----------------------------------------------------------------------------
(* Two sessions on one working directory *)

\* C9: the working directory is shared without a lock and its paths depend
\* on the uploaded file's name alone: a session's save is never held back
\* by what another session is doing, and it replaces the file that a
\* session of the same upload name is about to read back.
C9_SharedUnlocked ==
    [][\A s \in Sessions :
          /\ pc[s] = "main" /\ Standardizing(s) => ENABLED SaveUpload(s)
          /\ \A t \in Sessions \ {s} :
                 /\ pc[s] = "main" /\ pc'[s] = "read"
                 /\ pc[t] = "read"
                 /\ upload[t].name = upload[s].name
                 => fs'[upload[t].name] = upload[s].data
      ]_vars

\* a submission that has read back, as its original code, the other
\* session's upload, and ended with a download
C9_Witness ==
    \E s \in Sessions, t \in Sessions :
        /\ s # t
        /\ pc[s] = "done"
        /\ Standardizing(s) /\ Standardizing(t)
        /\ upload[s].name = upload[t].name
        /\ upload[s].data # upload[t].data
        /\ original_code[s] = upload[t].data
        /\ download[s] # Absent

====
